---- MODULE Spec2Model ----
(***************************************************************************)
(* Model of tooling/message-generators (src/main.rs): the command-line     *)
(* tool that derives the BBS G1 base point and the message generators.     *)
(*                                                                         *)
(* One invocation of `main` is a sequential process whose position is `pc`.*)
(* Byte strings and curve points are symbolic terms, written as sequences  *)
(* of tokens (strings).  The primitives of the external crates             *)
(* (expand_message, hash-to-curve, SHAKE-256, point compression, hex) are  *)
(* modelled as free constructors over those terms: deterministic, and      *)
(* distinct inputs give distinct outputs (the collision-free idealisation  *)
(* of a hash).  `prev` remembers the Generators returned by the latest     *)
(* earlier invocation that returned some, so that two invocations can be   *)
(* compared.                                                               *)
(***************************************************************************)
EXTENDS Integers, Sequences, FiniteSets, TLC

\* ------------------------------------------------------------------ bounds
\* Largest --length argument tried.
MaxLen == 2
\* Secret keys drawn by Scalar::random are 0..MaxSk.
MaxSk == 1

\* ------------------------------------------------------- program constants
\* let mut v = [0u8; 48]
VLen == 48
\* let mut buffer = [0u8; 64]
BufferLen == 64
\* 0usize.to_be_bytes()[4..] : the slice starts at byte 4
ExtraFrom == 4

\* const DST
DST == <<"BBS_BLS12381G1_XOF:SHAKE-256_SSWU_RO_">>

\* size_of::<usize>() of the targets the program builds for (it needs std).
UsizeWidths == {4, 8}

\* ------------------------------------------------------------------ state
VARIABLES
  usize_bytes,    \* size_of::<usize>() of the build
  args,           \* the command line of this invocation
  pc,             \* where this invocation of main is
  opt,            \* Opt, once parsed
  suite_fn,       \* get_generators_fn: the suite make_generators is instantiated at
  sk,             \* the secret key drawn (signer-specific mode), else -1
  seed_arg,       \* make_generators' parameter seed: Option<&[u8]>
  seed,           \* make_generators' local seed
  v,              \* make_g1_base_point's v
  bp_buffer,      \* make_g1_base_point's buffer
  base_point,     \* make_generators' base_point
  reader,         \* the SHAKE-256 XOF reader
  generators,     \* make_generators' Vec
  buffer,         \* make_generators' 64-byte buffer
  iter,           \* iterations of the generator loop completed
  result,         \* Option<Generators>: main's `generators`, once returned
  stdout,         \* the lines printed
  file,           \* the output file: whether created, whether written, its content
  printed,        \* generators printed so far by print_generators
  prev            \* what the latest earlier invocation that returned had returned

vars == <<usize_bytes, args, pc, opt, suite_fn, sk, seed_arg, seed, v,
          bp_buffer, base_point, reader, generators, buffer, iter, result,
          stdout, file, printed, prev>>

\* ------------------------------------------------------------ option types
None == [some |-> FALSE, val |-> <<>>]
Some(x) == [some |-> TRUE, val |-> x]

Ok(x) == [ok |-> TRUE, val |-> x]
Err(x) == [ok |-> FALSE, val |-> x]

\* --------------------------------------------------------- argument parsing
\* str::to_lowercase over the letters the argument strings are made of.
to_lowercase_char(c) ==
  CASE c = "A" -> "a" [] c = "E" -> "e" [] c = "F" -> "f" [] c = "G" -> "g"
    [] c = "H" -> "h" [] c = "I" -> "i" [] c = "K" -> "k" [] c = "L" -> "l"
    [] c = "N" -> "n" [] c = "P" -> "p" [] c = "R" -> "r" [] c = "S" -> "s"
    [] c = "T" -> "t" [] c = "X" -> "x" [] c = "O" -> "o" [] c = "B" -> "b"
    [] OTHER -> c

to_lowercase(s) == [k \in DOMAIN s |-> to_lowercase_char(s[k])]

GenTypeGlobalNames ==
  { <<"g">>, <<"g","l">>, <<"g","l","o">>, <<"g","l","o","b">>,
    <<"g","l","o","b","a">>, <<"g","l","o","b","a","l">> }

GenTypeSignerNames ==
  { <<"s">>, <<"s","i">>, <<"s","i","g">>, <<"s","i","g","n">>,
    <<"s","i","g","n","e">>, <<"s","i","g","n","e","r">> }

\* A catch-all arm that accepts instead of rejecting.
GenTypeFromStrLenient(s) ==
  IF to_lowercase(s) \in GenTypeSignerNames THEN Ok("SignerSpecific")
  ELSE Ok("Global")

GenTypeFromStr(s) ==
  IF to_lowercase(s) \in GenTypeGlobalNames THEN Ok("Global")
  ELSE IF to_lowercase(s) \in GenTypeSignerNames THEN Ok("SignerSpecific")
  ELSE Err("Invalid Value")

OutputTypeFileNames ==
  { <<"f">>, <<"f","i">>, <<"f","i","l">>, <<"f","i","l","e">> }

OutputTypePrintNames ==
  { <<"p">>, <<"p","r">>, <<"p","r","i">>, <<"p","r","i","n">>,
    <<"p","r","i","n","t">> }

OutputTypeFromStr(s) ==
  IF to_lowercase(s) \in OutputTypeFileNames THEN Ok("File")
  ELSE IF to_lowercase(s) \in OutputTypePrintNames THEN Ok("Print")
  ELSE Err("Invalid Value")

CiphersuiteSha256Names ==
  { <<"s","h","a">>, <<"s","h","a","2">>, <<"s","h","a","2","5">>,
    <<"s","h","a","2","5","6">>, <<"x","m","d">> }

CiphersuiteShake256Names ==
  { <<"s","h","a","k","e">>, <<"s","h","a","k","e","2">>,
    <<"s","h","a","k","e","2","5">>, <<"s","h","a","k","e","2","5","6">>,
    <<"x","o","f">> }

CiphersuiteFromStr(s) ==
  IF to_lowercase(s) \in CiphersuiteSha256Names THEN Ok("SHA256")
  ELSE IF to_lowercase(s) \in CiphersuiteShake256Names THEN Ok("SHAKE256")
  ELSE Err("Invalid Value")

\* #[structopt(required_if("out-type", "file"))]: the raw argument value is
\* compared, before any FromStr.
FileNameRequired(a) == a.out_type = <<"f","i","l","e">> /\ ~a.file_name.some

\* Opt::from_args(): every field parsed by its FromStr; any Err, or a missing
\* required argument, is a usage error.
ParseOpt(a) ==
  LET su == CiphersuiteFromStr(a.suite)
      gt == GenTypeFromStr(a.generator_type)
      ot == OutputTypeFromStr(a.out_type)
  IN IF su.ok /\ gt.ok /\ ot.ok /\ ~FileNameRequired(a)
     THEN Ok([suite |-> su.val, length |-> a.length,
              generator_type |-> gt.val, out_type |-> ot.val,
              file_name |-> a.file_name])
     ELSE Err([suite |-> "", length |-> 0, generator_type |-> "",
               out_type |-> "", file_name |-> None])

\* The argument strings tried: the defaults, abbreviations, other cases, and
\* strings outside the accepted sets.
SuiteArgs == { <<"S","h","a","k","e">>, <<"S","H","A","2","5","6">>,
               <<"x","o","f">>, <<"s","h">> }
GenTypeArgs == { <<"G","l","o","b","a","l">>, <<"S">>,
                 <<"s","i","g","n","e","r","s">> }
OutTypeArgs == { <<"P","r","i","n","t">>, <<"f","i","l","e">>, <<"F">>,
                 <<"j","s","o","n">> }
FileNameArgs == { None, Some(<<"out.json">>) }

ArgSets == [suite : SuiteArgs, length : 0..MaxLen,
            generator_type : GenTypeArgs, out_type : OutTypeArgs,
            file_name : FileNameArgs]

\* ------------------------------------------------- ciphersuites (mod ciphersuites)
\* The two implementors of BbsCiphersuite and the constants each fixes.
Bls12381Shake256 == "Bls12381Shake256"
Bls12381Sha256 == "Bls12381Sha256"

generator_seed(S) == <<"generator_seed", S>>
bp_generator_seed(S) == <<"bp_generator_seed", S>>
generator_seed_dst(S) == <<"generator_seed_dst", S>>
generator_dst(S) == <<"generator_dst", S>>

ExpandMsgXofShake256 == "ExpandMsgXof<Shake256>"
ExpandMsgXmdSha256 == "ExpandMsgXmd<Sha256>"

Expander(S) ==
  IF S = Bls12381Shake256 THEN ExpandMsgXofShake256 ELSE ExpandMsgXmdSha256

\* ------------------------------------------------------ external primitives
\* ExpandMsg::expand_message(msg, dst, &mut buf): n = buf.len() bytes.
expand_message(E, msg, dst, n) ==
  <<"expand_message", E, "(">> \o msg \o <<"|">> \o dst
     \o <<"|", ToString(n), ")">>

\* G1Projective::hash::<E>(msg, dst)
G1_hash(E, msg, dst) ==
  <<"G1::hash", E, "(">> \o msg \o <<"|">> \o dst \o <<")">>

\* Shake256::default().chain(seed).finalize_xof(): a reader at offset 0.
finalize_xof(sd) == [absorbed |-> sd, pos |-> 0]

\* The bytes [from, from + n) of the SHAKE-256 output stream of `sd`.
shake256_bytes(sd, from, n) ==
  <<"shake256(">> \o sd \o <<")[", ToString(from), "..", ToString(from + n), ")">>

\* A read that squeezes only half of the buffer's length.
xof_read_half(r, n) ==
  [buf |-> shake256_bytes(r.absorbed, r.pos, n),
   reader |-> [r EXCEPT !.pos = r.pos + (n \div 2)]]

\* XofReader::read(&mut buffer): fills the n bytes of the buffer with the next
\* n bytes of the stream and advances the reader.
xof_read(r, n) ==
  [buf |-> shake256_bytes(r.absorbed, r.pos, n),
   reader |-> [r EXCEPT !.pos = r.pos + n]]

\* G2Projective::generator() * sk
G2_mul_generator(k) == <<"G2::generator*", ToString(k)>>

\* p.to_affine().to_compressed()
to_compressed(p) == <<"compressed(">> \o p \o <<")">>

hex_encode(b) == <<"hex(">> \o b \o <<")">>

\* The curve point not yet computed.
NoPoint == <<>>

\* --------------------------------------------------------------- main.rs
\* Both arms choosing the same suite.
get_generators_fn_same(suite) == Bls12381Shake256

\* match opt.suite { SHAKE256 => make_generators::<Bls12381Shake256>, ... }
get_generators_fn(suite) ==
  IF suite = "SHAKE256" THEN Bls12381Shake256 ELSE Bls12381Sha256

\* An explicit empty seed passed instead of None.
global_seed_arg_empty == Some(<<>>)

\* global_generators: make_generators_fn(None, len)
global_seed_arg == None

\* signer_specific_generators: Some(&pk.to_affine().to_compressed())
signer_seed_arg(k) == Some(to_compressed(G2_mul_generator(k)))

\* seed.unwrap_or(default_seed)
unwrap_or(o, default) == IF o.some THEN o.val ELSE default

\* 0usize.to_be_bytes()[4..].to_vec(): the bytes of the big-endian encoding
\* of zero from index 4 on; size_of::<usize>() = w.
extra_bytes(w) == [k \in 1..(w - ExtraFrom) |-> "00"]

\* The call's seed expanded in place of the suite's bp_generator_seed.
bp_expand_call_seed(S) ==
  expand_message(Expander(S), seed, generator_seed_dst(S), VLen)

\* make_g1_base_point, first expansion
bp_expand_seed(S) ==
  expand_message(Expander(S), bp_generator_seed(S), generator_seed_dst(S), VLen)

\* [v.as_ref(), &extra].concat()
bp_concat(vv, w) == vv \o extra_bytes(w)

\* make_g1_base_point, second expansion
bp_expand_buffer(S, b) ==
  expand_message(Expander(S), b, generator_seed_dst(S), VLen)

\* G1Projective::hash::<X::Expander>(&v, &X::generator_dst())
bp_hash(S, vv) == G1_hash(Expander(S), vv, generator_dst(S))

\* make_g1_base_point::<X>() as one function; w = size_of::<usize>().
make_g1_base_point(S, w) ==
  bp_hash(S, bp_expand_buffer(S, bp_concat(bp_expand_seed(S), w)))

\* G1Projective::hash::<ExpandMsgXof<Shake256>>(&buffer, DST)
hash_generator(b) == G1_hash(ExpandMsgXofShake256, b, DST)

\* generators.insert(0, gi)
push_front(gs, g) == <<g>> \o gs

\* generators.push(gi)
push(gs, g) == Append(gs, g)

\* for _ in 1..len
loop_continues_from_one(n, len) == n + 1 < len

\* for _ in 0..len : n iterations done so far
loop_continues(n, len) == n < len

RECURSIVE generator_loop(_, _, _, _)
generator_loop(r, gs, n, len) ==
  IF loop_continues(n, len)
  THEN LET rd == xof_read(r, BufferLen)
       IN generator_loop(rd.reader, push(gs, hash_generator(rd.buf)), n + 1, len)
  ELSE gs

\* make_generators::<X>(seed, len) as one function; w = size_of::<usize>().
make_generators(S, seedOpt, len, w) ==
  [g1_base_point |-> make_g1_base_point(S, w),
   message_generators |->
     generator_loop(finalize_xof(unwrap_or(seedOpt, generator_seed(S))),
                    <<>>, 0, len)]

\* "G1 BP = {}"
bp_line(p) == <<"G1 BP = ">> \o hex_encode(to_compressed(p))

\* "G_{} = {}", i + 1
generator_line(k, g) == <<"G_", ToString(k), " = ">> \o hex_encode(to_compressed(g))

\* generators.message_generators.iter().map(hex::encode(..)).collect()
hex_all(gs) == [k \in DOMAIN gs |-> hex_encode(to_compressed(gs[k]))]

NoOpt == [suite |-> "", length |-> 0, generator_type |-> "", out_type |-> "",
          file_name |-> None]
NoReader == [absorbed |-> <<>>, pos |-> 0]
NoResult == [some |-> FALSE,
             val |-> [g1_base_point |-> NoPoint, message_generators |-> <<>>]]
NoFile == [created |-> FALSE, written |-> FALSE, content |-> <<>>]
NoPrev == [valid |-> FALSE, suite |-> "", suite_fn |-> "", mode |-> "",
           seed_arg |-> None, seed |-> <<>>, len |-> 0,
           g1_base_point |-> NoPoint, message_generators |-> <<>>]

NoArgs == [suite |-> <<>>, length |-> 0, generator_type |-> <<>>,
           out_type |-> <<>>, file_name |-> None]

\* No process is running: nothing is parsed, computed or written.
Fresh ==
  /\ pc = "idle"
  /\ args = NoArgs
  /\ opt = NoOpt
  /\ suite_fn = ""
  /\ sk = -1
  /\ seed_arg = None
  /\ seed = <<>>
  /\ v = <<>>
  /\ bp_buffer = <<>>
  /\ base_point = NoPoint
  /\ reader = NoReader
  /\ generators = <<>>
  /\ buffer = <<>>
  /\ iter = 0
  /\ result = NoResult
  /\ stdout = <<>>
  /\ file = NoFile
  /\ printed = 0

Init ==
  /\ usize_bytes \in UsizeWidths
  /\ prev = NoPrev
  /\ Fresh

\* The program is started with some command line.
Start ==
  /\ pc = "idle"
  /\ args' \in ArgSets
  /\ pc' = "start"
  /\ UNCHANGED <<usize_bytes, opt, suite_fn, sk, seed_arg, seed, v, bp_buffer,
                 base_point, reader, generators, buffer, iter, result, stdout,
                 file, printed, prev>>

\* let opt: Opt = Opt::from_args(): a usage error ends the process.
Parse ==
  /\ pc = "start"
  /\ LET r == ParseOpt(args)
     IN /\ opt' = r.val
        /\ pc' = IF r.ok THEN "select_fn" ELSE "usage_error"
  /\ UNCHANGED <<usize_bytes, args, suite_fn, sk, seed_arg, seed, v, bp_buffer,
                 base_point, reader, generators, buffer, iter, result, stdout,
                 file, printed, prev>>

\* let get_generators_fn = match opt.suite { ... }
SelectFn ==
  /\ pc = "select_fn"
  /\ suite_fn' = get_generators_fn(opt.suite)
  /\ pc' = "select_mode"
  /\ UNCHANGED <<usize_bytes, args, opt, sk, seed_arg, seed, v, bp_buffer,
                 base_point, reader, generators, buffer, iter, result, stdout,
                 file, printed, prev>>

\* GenType::Global => global_generators(get_generators_fn, opt.length)
CallGlobal ==
  /\ pc = "select_mode"
  /\ opt.generator_type = "Global"
  /\ seed_arg' = global_seed_arg
  /\ pc' = "mg_seed"
  /\ UNCHANGED <<usize_bytes, args, opt, suite_fn, sk, seed, v, bp_buffer,
                 base_point, reader, generators, buffer, iter, result, stdout,
                 file, printed, prev>>

\* GenType::SignerSpecific => signer_specific_generators(..): a random key.
CallSignerSpecific ==
  /\ pc = "select_mode"
  /\ opt.generator_type = "SignerSpecific"
  /\ \E k \in 0..MaxSk :
       /\ sk' = k
       /\ seed_arg' = signer_seed_arg(k)
  /\ pc' = "mg_seed"
  /\ UNCHANGED <<usize_bytes, args, opt, suite_fn, seed, v, bp_buffer,
                 base_point, reader, generators, buffer, iter, result, stdout,
                 file, printed, prev>>

\* let seed = seed.unwrap_or(default_seed)
TakeSeed ==
  /\ pc = "mg_seed"
  /\ seed' = unwrap_or(seed_arg, generator_seed(suite_fn))
  /\ pc' = "bp_expand_seed"
  /\ UNCHANGED <<usize_bytes, args, opt, suite_fn, sk, seed_arg, v, bp_buffer,
                 base_point, reader, generators, buffer, iter, result, stdout,
                 file, printed, prev>>

\* expand_message(&bp_generator_seed(), &generator_seed_dst(), &mut v)
BpExpandSeed ==
  /\ pc = "bp_expand_seed"
  /\ v' = bp_expand_seed(suite_fn)
  /\ pc' = "bp_concat"
  /\ UNCHANGED <<usize_bytes, args, opt, suite_fn, sk, seed_arg, seed, bp_buffer,
                 base_point, reader, generators, buffer, iter, result, stdout,
                 file, printed, prev>>

\* let buffer = [v.as_ref(), &extra].concat()
BpConcat ==
  /\ pc = "bp_concat"
  /\ bp_buffer' = bp_concat(v, usize_bytes)
  /\ pc' = "bp_expand_buffer"
  /\ UNCHANGED <<usize_bytes, args, opt, suite_fn, sk, seed_arg, seed, v,
                 base_point, reader, generators, buffer, iter, result, stdout,
                 file, printed, prev>>

\* expand_message(&buffer, &generator_seed_dst(), &mut v)
BpExpandBuffer ==
  /\ pc = "bp_expand_buffer"
  /\ v' = bp_expand_buffer(suite_fn, bp_buffer)
  /\ pc' = "bp_hash"
  /\ UNCHANGED <<usize_bytes, args, opt, suite_fn, sk, seed_arg, seed, bp_buffer,
                 base_point, reader, generators, buffer, iter, result, stdout,
                 file, printed, prev>>

\* let base_point = G1Projective::hash::<X::Expander>(&v, &generator_dst())
BpHash ==
  /\ pc = "bp_hash"
  /\ base_point' = bp_hash(suite_fn, v)
  /\ pc' = "mg_reader"
  /\ UNCHANGED <<usize_bytes, args, opt, suite_fn, sk, seed_arg, seed, v,
                 bp_buffer, reader, generators, buffer, iter, result, stdout,
                 file, printed, prev>>

\* A vector that outlives the call: it still holds the earlier call's elements.
vec_static == prev.message_generators

\* Vec::new()
vec_new == <<>>

\* let mut reader = ..; let mut generators = Vec::new(); let mut buffer = [0u8; 64]
MakeReader ==
  /\ pc = "mg_reader"
  /\ reader' = finalize_xof(seed)
  /\ generators' = vec_new
  /\ buffer' = [k \in 1..BufferLen |-> "00"]
  /\ iter' = 0
  /\ pc' = "mg_loop"
  /\ UNCHANGED <<usize_bytes, args, opt, suite_fn, sk, seed_arg, seed, v,
                 bp_buffer, base_point, result, stdout, file, printed, prev>>

\* One iteration of for _ in 0..len { read; hash; push }
LoopIteration ==
  /\ pc = "mg_loop"
  /\ loop_continues(iter, opt.length)
  /\ LET rd == xof_read(reader, BufferLen)
     IN /\ reader' = rd.reader
        /\ buffer' = rd.buf
        /\ generators' = push(generators, hash_generator(rd.buf))
  /\ iter' = iter + 1
  /\ UNCHANGED <<usize_bytes, args, pc, opt, suite_fn, sk, seed_arg, seed, v,
                 bp_buffer, base_point, result, stdout, file, printed, prev>>

\* Generators { g1_base_point: base_point, message_generators: generators }
Return ==
  /\ pc = "mg_loop"
  /\ ~loop_continues(iter, opt.length)
  /\ result' = Some([g1_base_point |-> base_point,
                     message_generators |-> generators])
  /\ pc' = "output"
  /\ UNCHANGED <<usize_bytes, args, opt, suite_fn, sk, seed_arg, seed, v,
                 bp_buffer, base_point, reader, generators, buffer, iter,
                 stdout, file, printed, prev>>

\* OutputType::Print => print_generators: the base point's line
PrintBasePoint ==
  /\ pc = "output"
  /\ opt.out_type = "Print"
  /\ stdout' = Append(stdout, bp_line(result.val.g1_base_point))
  /\ pc' = "print_generators"
  /\ UNCHANGED <<usize_bytes, args, opt, suite_fn, sk, seed_arg, seed, v,
                 bp_buffer, base_point, reader, generators, buffer, iter,
                 result, file, printed, prev>>

\* print_generators: the next generator's line
PrintGenerator ==
  /\ pc = "print_generators"
  /\ printed < Len(result.val.message_generators)
  /\ stdout' = Append(stdout,
        generator_line(printed + 1, result.val.message_generators[printed + 1]))
  /\ printed' = printed + 1
  /\ UNCHANGED <<usize_bytes, args, pc, opt, suite_fn, sk, seed_arg, seed, v,
                 bp_buffer, base_point, reader, generators, buffer, iter,
                 result, file, prev>>

PrintDone ==
  /\ pc = "print_generators"
  /\ printed = Len(result.val.message_generators)
  /\ pc' = "done"
  /\ UNCHANGED <<usize_bytes, args, opt, suite_fn, sk, seed_arg, seed, v,
                 bp_buffer, base_point, reader, generators, buffer, iter,
                 result, stdout, file, printed, prev>>

\* OutputType::File => .. opt.file_name.unwrap(): panics on None
FileNameUnwrapPanics ==
  /\ pc = "output"
  /\ opt.out_type = "File"
  /\ ~opt.file_name.some
  /\ pc' = "panicked"
  /\ UNCHANGED <<usize_bytes, args, opt, suite_fn, sk, seed_arg, seed, v,
                 bp_buffer, base_point, reader, generators, buffer, iter,
                 result, stdout, file, printed, prev>>

\* write_generators_to_file: File::create(file_path).unwrap()
FileCreate ==
  /\ pc = "output"
  /\ opt.out_type = "File"
  /\ opt.file_name.some
  /\ \/ /\ file' = [file EXCEPT !.created = TRUE]
        /\ pc' = "file_write"
     \/ /\ pc' = "panicked"
        /\ UNCHANGED file
  /\ UNCHANGED <<usize_bytes, args, opt, suite_fn, sk, seed_arg, seed, v,
                 bp_buffer, base_point, reader, generators, buffer, iter,
                 result, stdout, printed, prev>>

\* serde_json::to_writer_pretty(&mut writer, &result).unwrap(); writer.flush().unwrap()
FileWrite ==
  /\ pc = "file_write"
  /\ \/ /\ file' = [file EXCEPT !.written = TRUE,
                                !.content = hex_all(result.val.message_generators)]
        /\ pc' = "done"
     \/ /\ pc' = "panicked"
        /\ UNCHANGED file
  /\ UNCHANGED <<usize_bytes, args, opt, suite_fn, sk, seed_arg, seed, v,
                 bp_buffer, base_point, reader, generators, buffer, iter,
                 result, stdout, printed, prev>>

\* What an invocation that returned leaves to compare the next one with.
Summary ==
  [valid |-> TRUE, suite |-> opt.suite, suite_fn |-> suite_fn,
   mode |-> opt.generator_type, seed_arg |-> seed_arg, seed |-> seed,
   len |-> opt.length,
   g1_base_point |-> result.val.g1_base_point,
   message_generators |-> result.val.message_generators]

\* The process has ended: its memory and its output are gone, and the program
\* may be started again, on the same build.
Exit ==
  /\ pc \in {"done", "panicked", "usage_error"}
  /\ prev' = IF result.some THEN Summary ELSE prev
  /\ args' = NoArgs
  /\ pc' = "idle"
  /\ opt' = NoOpt
  /\ suite_fn' = ""
  /\ sk' = -1
  /\ seed_arg' = None
  /\ seed' = <<>>
  /\ v' = <<>>
  /\ bp_buffer' = <<>>
  /\ base_point' = NoPoint
  /\ reader' = NoReader
  /\ generators' = <<>>
  /\ buffer' = <<>>
  /\ iter' = 0
  /\ result' = NoResult
  /\ stdout' = <<>>
  /\ file' = NoFile
  /\ printed' = 0
  /\ UNCHANGED usize_bytes

Next ==
  \/ Start
  \/ Parse
  \/ SelectFn
  \/ CallGlobal
  \/ CallSignerSpecific
  \/ TakeSeed
  \/ BpExpandSeed
  \/ BpConcat
  \/ BpExpandBuffer
  \/ BpHash
  \/ MakeReader
  \/ LoopIteration
  \/ Return
  \/ PrintBasePoint
  \/ PrintGenerator
  \/ PrintDone
  \/ FileNameUnwrapPanics
  \/ FileCreate
  \/ FileWrite
  \/ Exit

Spec == Init /\ [][Next]_vars

\* ------------------------------------------------------------------ claims
\* This invocation and the earlier one were given the same suite and the same
\* seed argument.
SameSuiteAndSeed ==
  /\ prev.valid
  /\ result.some
  /\ prev.suite_fn = suite_fn
  /\ prev.seed_arg = seed_arg

Min(a, b) == IF a <= b THEN a ELSE b

\* C1: prefix stability.  For a fixed suite and seed, the first k generators
\* of a derivation of N >= k generators are, in order, the generators of a
\* derivation of k generators.
C1_PrefixStability ==
  SameSuiteAndSeed =>
    LET k == Min(prev.len, opt.length)
    IN SubSeq(result.val.message_generators, 1, k)
         = SubSeq(prev.message_generators, 1, k)
       /\ Len(prev.message_generators) = prev.len
       /\ Len(result.val.message_generators) = opt.length

C1_Witness ==
  /\ SameSuiteAndSeed
  /\ prev.len = 1
  /\ opt.length = 2
  /\ opt.generator_type = "SignerSpecific"

\* C2: the base point depends on the suite alone.  Two invocations with the
\* same suite return the same base point, whatever their modes, counts, keys.
C2_BasePointOfSuiteAlone ==
  (prev.valid /\ result.some /\ prev.suite = opt.suite)
    => result.val.g1_base_point = prev.g1_base_point

C2_Witness ==
  /\ prev.valid
  /\ result.some
  /\ prev.suite = opt.suite
  /\ prev.mode = "Global"
  /\ opt.generator_type = "SignerSpecific"
  /\ prev.len # opt.length

\* C3: determinism.  Two invocations with the same suite, the same mode, the
\* same seed and the same count return the same base point and the same
\* generators: nothing of the earlier call is left in the later one.
C3_Determinism ==
  (SameSuiteAndSeed /\ prev.mode = opt.generator_type /\ prev.len = opt.length)
    => /\ result.val.g1_base_point = prev.g1_base_point
       /\ result.val.message_generators = prev.message_generators

C3_Witness ==
  /\ SameSuiteAndSeed
  /\ prev.mode = opt.generator_type
  /\ prev.len = opt.length
  /\ opt.length >= 1

\* Two invocations with different suites, the same mode and the same count.
CrossSuite ==
  /\ prev.valid
  /\ result.some
  /\ prev.suite # opt.suite
  /\ prev.mode = opt.generator_type
  /\ prev.len = opt.length

\* C4 as stated: with the same mode and count, the two suites return
\* different base points and different generator sequences.
C4_CrossSuiteDivergence ==
  CrossSuite =>
    /\ result.val.g1_base_point # prev.g1_base_point
    /\ result.val.message_generators # prev.message_generators

\* C4 as amended: with the same mode and count, the two suites return
\* different base points; their generator sequences are equal exactly when
\* the count is 0 or, in signer-specific mode, the same key was drawn, and
\* different otherwise.
C4_CrossSuiteDivergenceAmended ==
  CrossSuite =>
    /\ result.val.g1_base_point # prev.g1_base_point
    /\ (result.val.message_generators = prev.message_generators)
         <=> \/ opt.length = 0
             \/ /\ opt.generator_type = "SignerSpecific"
                /\ prev.seed_arg = seed_arg

C4_Witness ==
  /\ CrossSuite
  /\ opt.generator_type = "Global"
  /\ opt.length >= 1
  /\ result.val.message_generators # prev.message_generators

\* C5: the mode only chooses the seed.  Global mode returns what
\* make_generators returns for the suite's generator_seed() given explicitly,
\* and signer-specific mode with key k what it returns for the compressed
\* encoding of (G2 generator * k).
C5_ModeOnlyChoosesSeed ==
  result.some =>
    /\ opt.generator_type = "Global" =>
         result.val = make_generators(suite_fn, Some(generator_seed(suite_fn)),
                                      opt.length, usize_bytes)
    /\ opt.generator_type = "SignerSpecific" =>
         result.val = make_generators(suite_fn,
                                      Some(to_compressed(G2_mul_generator(sk))),
                                      opt.length, usize_bytes)

C5_Witness ==
  /\ result.some
  /\ opt.generator_type = "SignerSpecific"
  /\ opt.length >= 1
  /\ prev.valid
  /\ prev.mode = "Global"
  /\ prev.len >= 1

\* Where main is once make_generators has returned.
AfterReturn == {"output", "print_generators", "file_write", "done", "panicked"}

\* C6: whatever the suite, the mode and the count N, make_generators returns
\* exactly N generators and a base point; N = 0 gives no generator and a
\* base point.
C6_CountAndBasePoint ==
  pc \in AfterReturn =>
    /\ result.some
    /\ Len(result.val.message_generators) = opt.length
    /\ result.val.g1_base_point # NoPoint
    /\ result.val.g1_base_point[1] = "G1::hash"

C6_Witness ==
  /\ pc = "done"
  /\ opt.length = 0
  /\ result.val.message_generators = <<>>
  /\ result.val.g1_base_point # NoPoint

\* The command line holds a suite, mode or output string that its FromStr
\* does not accept.
InvalidSelection ==
  \/ to_lowercase(args.suite) \notin
        (CiphersuiteSha256Names \cup CiphersuiteShake256Names)
  \/ to_lowercase(args.generator_type) \notin
        (GenTypeGlobalNames \cup GenTypeSignerNames)
  \/ to_lowercase(args.out_type) \notin
        (OutputTypeFileNames \cup OutputTypePrintNames)

C9_BasePointSteps ==
  LET E == Expander(suite_fn)
      v1 == expand_message(E, bp_generator_seed(suite_fn),
                           generator_seed_dst(suite_fn), VLen)
      b == v1 \o <<"00", "00", "00", "00">>
      v2 == expand_message(E, b, generator_seed_dst(suite_fn), VLen)
  IN /\ pc = "bp_concat" => v = v1
     /\ pc = "bp_expand_buffer" => bp_buffer = b
     /\ pc = "bp_hash" => v = v2
     /\ base_point # NoPoint =>
          base_point = G1_hash(E, v2, generator_dst(suite_fn))

\* C10: in the generator loop, after i iterations 64*i bytes have been read
\* from the SHAKE-256 stream of the seed, the list holds i points, and the
\* j-th point is the hash to the curve (XOF/SHAKE-256, the constant DST) of
\* the stream's bytes [64*(j-1), 64*j); so for the same seed the j-th
\* generators of two invocations are equal, whatever their suites and counts.
C10_LoopInvariant ==
  /\ pc = "mg_loop" =>
       /\ reader.absorbed = seed
       /\ reader.pos = BufferLen * iter
       /\ Len(generators) = iter
       /\ iter <= opt.length
       /\ \A j \in 1..iter :
            generators[j] =
              G1_hash(ExpandMsgXofShake256,
                      shake256_bytes(seed, BufferLen * (j - 1), BufferLen), DST)
  /\ (prev.valid /\ pc \in ({"mg_loop"} \cup AfterReturn) /\ prev.seed = seed) =>
       \A j \in 1..Min(Len(generators), prev.len) :
          generators[j] = prev.message_generators[j]

C10_Witness ==
  /\ pc = "mg_loop"
  /\ iter = 2
  /\ prev.valid
  /\ prev.seed = seed
  /\ prev.suite_fn # suite_fn
  /\ prev.len >= 1

====
